---- MODULE Spec2Model ----
(***************************************************************************)
(* Connection management and error handling core of edgedb-go:             *)
(*   - the pool handle (poolConn)              src/unnamed/part_000        *)
(*   - the borrow guard and connection facade  src/borrow.go               *)
(*   - the error model (wrapAll, decodeError)  src/error.go                *)
(* Each component has its own specification over the shared variables:     *)
(*   Spec        the pool handle                                           *)
(*   SpecBorrow  the borrow guard and the facade                           *)
(*   SpecWrap    wrapAll applied to bounded error lists                    *)
(*   SpecDecode  decodeError applied to bounded payloads                   *)
(***************************************************************************)
EXTENDS Integers, Sequences, FiniteSets, TLC

VARIABLES
    \* poolConn (src/unnamed/part_000:37-41)
    pool,          \* c.pool: "pool" or NIL
    conn,          \* c.conn: "conn" or NIL
    err,           \* c.err: the recorded health error, Nil when none
    \* the collaborators of the pool handle, as the handle drives them
    released,      \* arguments of every pool.release(conn, err) call, in order
    returned,      \* errors returned by the calls forwarded to the connection
    strayCalls,    \* calls that reached the connection after it went back
    nRelease,      \* Release() calls made so far
    ret,           \* what the last operation on the handle returned
    \* borrowableConn (src/borrow.go:26-29)
    reason,        \* c.reason
    bOp,           \* the last guard/facade operation: [op, arg, pre]
    bRet,          \* what it returned
    scriptCalls,   \* invocations of baseConn.scriptFlow
    granularCalls, \* invocations of baseConn.granularFlow
    holders,       \* successful borrows not yet unborrowed
    \* wrapAll (src/error.go:172-194)
    wIn,           \* the argument list
    wOut,          \* the result, NotRun before the call
    \* decodeError (src/error.go:97-141)
    dIn,           \* the payload and the query text
    dOut           \* the result, NotRun before the call

poolVars == <<pool, conn, err, released, returned, strayCalls, nRelease, ret>>
borrowVars == <<reason, bOp, bRet, scriptCalls, granularCalls, holders>>
wrapVars == <<wIn, wOut>>
decodeVars == <<dIn, dOut>>
\* goroutines that share one borrowableConn without synchronisation
VARIABLES
    pc,            \* each goroutine's position in the call it is making
    call,          \* the call each goroutine made last
    want,          \* the reason a goroutine inside borrow is about to store
    cRet,          \* what each goroutine's last finished call returned
    overlapped     \* history: whether a borrow call has run beside another
                   \* borrow call, and beside a facade call

raceVars == <<pc, call, want, cRet, overlapped>>

vars == <<poolVars, borrowVars, wrapVars, decodeVars, raceVars>>

(***************************************************************************)
(* Bounds                                                                  *)
(***************************************************************************)
MaxOps == 3        \* calls forwarded to the connection per handle
MaxRelease == 2    \* Release() calls per handle
MaxFlows == 2      \* base connection flows started per guard
MaxHolders == 2    \* cap of the outstanding-borrow counter
MaxErrs == 3       \* arguments of wrapAll
MaxHeaders == 2    \* headers of an error response
MaxQueryLen == 3   \* bytes of the query text
NumGoroutines == 2 \* goroutines sharing one connection

(***************************************************************************)
(* Error values                                                            *)
(***************************************************************************)
NIL == "nil"
Nil == [kind |-> "nil"]
NotRun == [kind |-> "notrun"]

\* a panic: the call does not return a value
Panic(why) == [kind |-> "panic", why |-> why]

\* an edgedb Error of the generated code: a message and the categories the
\* code puts it in
EdbErr(cats, msg) == [kind |-> "edb", cats |-> cats, msg |-> msg]

\* &interfaceError{msg: msg}
interfaceError(msg) == EdbErr({"InterfaceError"}, msg)

\* var errZeroResults error = &noDataError{msg: "zero results"}
errZeroResults == EdbErr({"NoDataError"}, "zero results")

\* a net.Error
NetErr(perm, msg) == [kind |-> "net", perm |-> perm, msg |-> msg]

NetPerm1 == NetErr(TRUE, "connection reset by peer")
NetTemp == NetErr(FALSE, "i/o timeout")
Unexpected1 == EdbErr({"ProtocolError", "UnexpectedMessageError"}, "unexpected message")
QueryErr == EdbErr({"QueryError"}, "invalid reference")
PlainErr == [kind |-> "plain", msg |-> "context canceled"]

\* err.Error()
ErrorMsg(e) == e.msg

(***************************************************************************)
(* wrapAll and the aggregate error (src/error.go:143-194)                  *)
(***************************************************************************)
\* for _, e := range errs { if e != nil { err.errs = append(err.errs, e) } }
NonNil(errs) == SelectSeq(errs, LAMBDA e : e /= Nil)

\* err.msg = err.errs[0].Error()
\* for _, e := range err.errs[1:] { err.msg += "; " + e.Error() }
RECURSIVE JoinMsgs(_, _, _)
JoinMsgs(errs, i, msg) ==
    IF i > Len(errs) THEN msg
    ELSE JoinMsgs(errs, i + 1, msg \o "; " \o ErrorMsg(errs[i]))

\* wrapAll without the "len(err.errs) == 1" case
wrapAllWrapsOne(errs) ==
    LET kept == NonNil(errs)
    IN  IF Len(kept) = 0 THEN Nil
        ELSE [kind |-> "many",
              msg |-> JoinMsgs(kept, 2, ErrorMsg(kept[1])),
              errs |-> kept]

wrapAll(errs) ==
    LET kept == NonNil(errs)
    IN  IF Len(kept) = 0 THEN Nil
        ELSE IF Len(kept) = 1 THEN kept[1]
        ELSE [kind |-> "many",
              msg |-> JoinMsgs(kept, 2, ErrorMsg(kept[1])),
              errs |-> kept]

\* errors.As(err, &edbErr) with edbErr of the interface type Error: the
\* error itself when it implements Error, else what its As method finds.
\* wrappedManyError.As tries its constituents in order and stops at the
\* first that matches. Nil stands for "no match".
RECURSIVE AsError(_)
RECURSIVE ManyAs(_, _)
ManyAs(errs, i) ==
    IF i > Len(errs) THEN Nil
    ELSE IF AsError(errs[i]) /= Nil THEN AsError(errs[i])
    ELSE ManyAs(errs, i + 1)

AsError(e) ==
    CASE e.kind = "edb" -> e
      [] e.kind = "many" -> ManyAs(e.errs, 1)
      [] OTHER -> Nil

\* edbErr.Category(c)
Category(e, c) == c \in e.cats

\* errors.As(err, &netErr) with netErr a net.Error
RECURSIVE AsNetErr(_)
RECURSIVE ManyAsNet(_, _)
ManyAsNet(errs, i) ==
    IF i > Len(errs) THEN Nil
    ELSE IF AsNetErr(errs[i]) /= Nil THEN AsNetErr(errs[i])
    ELSE ManyAsNet(errs, i + 1)

AsNetErr(e) ==
    CASE e.kind = "net" -> e
      [] e.kind = "many" -> ManyAsNet(e.errs, 1)
      [] OTHER -> Nil

\* soc.IsPermanentNetErr(err): a network error that is not temporary
IsPermanentNetErr(e) ==
    LET n == AsNetErr(e) IN n /= Nil /\ n.perm

(***************************************************************************)
(* The pool handle (src/unnamed/part_000)                                  *)
(***************************************************************************)
\* what the wrapped connection may return to a forwarded call
ConnErrs ==
    {Nil, NetPerm1, NetTemp, Unexpected1, QueryErr, errZeroResults,
     wrapAll(<<QueryErr, Unexpected1>>), wrapAll(<<Unexpected1, QueryErr>>)}

\* what pool.release(conn, err) may return
PoolCloseErr == [kind |-> "plain", msg |-> "close tcp: use of closed network connection"]
PoolReleaseRets == {Nil, PoolCloseErr}

errReleasedTwice == interfaceError("connection released more than once")

\* checkErr storing the outcome of every call, whatever its class
checkErrLastCall(cur, e) ==
    IF IsPermanentNetErr(e) THEN e
    ELSE IF AsError(e) /= Nil /\ Category(AsError(e), "UnexpectedMessageError")
         THEN e
    ELSE Nil

\* checkErr that records only on a handle with no recorded error
checkErrFirstWins(cur, e) ==
    IF cur /= Nil THEN cur
    ELSE IF IsPermanentNetErr(e) THEN e
    ELSE IF AsError(e) /= Nil /\ Category(AsError(e), "UnexpectedMessageError")
         THEN e
    ELSE cur

\* checkErr: the value of c.err after checkErr(err) when it was cur before
checkErr(cur, e) ==
    IF IsPermanentNetErr(e) THEN e
    ELSE IF AsError(e) /= Nil /\ Category(AsError(e), "UnexpectedMessageError")
         THEN e
    ELSE cur

\* if c.pool == nil { return &interfaceError{...} }
alreadyReleased(p) == p = NIL

\* Release swallowing what pool.release returned
releaseReturnNil(r) == Nil

\* err := c.pool.release(c.conn, c.err); ...; return err
releaseReturn(r) == r

\* Release without "c.pool = nil"
clearedHandleKeepsPool(p, c, e) == [pool |-> p, conn |-> NIL, err |-> Nil]

\* Release without "c.conn = nil"
clearedHandleKeepsConn(p, c, e) == [pool |-> NIL, conn |-> c, err |-> Nil]

\* c.pool = nil; c.conn = nil; c.err = nil
clearedHandle(p, c, e) == [pool |-> NIL, conn |-> NIL, err |-> Nil]

PoolInit ==
    /\ pool = "pool"
    /\ conn = "conn"
    /\ err = Nil
    /\ released = <<>>
    /\ returned = <<>>
    /\ strayCalls = 0
    /\ nRelease = 0
    /\ ret = [op |-> "checkout", val |-> Nil]

\* err := c.conn.M(...); c.checkErr(err); return err
\* After Release c.conn is nil: the call has no connection to run on and
\* ends in a nil pointer dereference.
Forward(op, e) ==
    IF conn = NIL
    THEN /\ ret' = [op |-> op, val |-> Panic("nil pointer dereference")]
         /\ UNCHANGED <<pool, conn, err, released, returned, strayCalls, nRelease>>
    ELSE /\ Len(returned) < MaxOps
         /\ returned' = Append(returned, e)
         /\ strayCalls' = IF released /= <<>> THEN strayCalls + 1 ELSE strayCalls
         /\ err' = checkErr(err, e)
         /\ ret' = [op |-> op, val |-> e]
         /\ UNCHANGED <<pool, conn, released, nRelease>>

Release ==
    /\ nRelease < MaxRelease
    /\ nRelease' = nRelease + 1
    /\ IF alreadyReleased(pool)
       THEN /\ ret' = [op |-> "Release", val |-> errReleasedTwice]
            /\ UNCHANGED <<pool, conn, err, released>>
       ELSE \E r \in PoolReleaseRets :
            LET h == clearedHandle(pool, conn, err)
            IN  /\ released' = Append(released,
                                      [conn |-> conn, err |-> err, out |-> r])
                /\ pool' = h.pool
                /\ conn' = h.conn
                /\ err' = h.err
                /\ ret' = [op |-> "Release", val |-> releaseReturn(r)]
    /\ UNCHANGED <<returned, strayCalls>>

Idle == UNCHANGED <<borrowVars, wrapVars, decodeVars, raceVars>>

PoolExecute == (\E e \in ConnErrs : Forward("Execute", e)) /\ Idle
PoolQuery == (\E e \in ConnErrs : Forward("Query", e)) /\ Idle
PoolQueryOne == (\E e \in ConnErrs : Forward("QueryOne", e)) /\ Idle
PoolQueryJSON == (\E e \in ConnErrs : Forward("QueryJSON", e)) /\ Idle
PoolQueryOneJSON == (\E e \in ConnErrs : Forward("QueryOneJSON", e)) /\ Idle
PoolTryTx == (\E e \in ConnErrs : Forward("TryTx", e)) /\ Idle
PoolRetry == (\E e \in ConnErrs : Forward("Retry", e)) /\ Idle
PoolRelease == Release /\ Idle

PoolNext ==
    \/ PoolExecute
    \/ PoolQuery
    \/ PoolQueryOne
    \/ PoolQueryJSON
    \/ PoolQueryOneJSON
    \/ PoolTryTx
    \/ PoolRetry
    \/ PoolRelease


(***************************************************************************)
(* The borrow guard and the connection facade (src/borrow.go)              *)
(***************************************************************************)
\* The two conflict messages, cut into pieces at every occurrence of the
\* word "transaction"; the message is the concatenation of the pieces.
errBorrowedTx ==
    interfaceError(<<"The connection is borrowed for a ", "transaction",
                     ". Use the methods on the ", "transaction",
                     " object instead.">>)
errBorrowedSubtx ==
    interfaceError(<<"The ", "transaction", " is borrowed for a sub",
                     "transaction", ". Use the methods on the sub",
                     "transaction", " object instead.">>)

\* a call that returned normally without a value
Returned == [kind |-> "return"]
\* borrow's successful result: (c.baseConn, nil)
Borrowed == [kind |-> "ok", conn |-> "baseConn"]

\* the reasons callers pass to borrow: the two valid ones, and two others
Reasons == {"transaction", "subtransaction", "", "savepoint"}

\* borrow without the switch on c.reason
borrowNoStateCheck(cur, r) ==
    IF r \in {"transaction", "subtransaction"}
    THEN [reason |-> r, out |-> Borrowed]
    ELSE [reason |-> cur, out |-> Panic("unexpected reason")]

\* borrow without the switch on the requested reason
borrowAnyReason(cur, r) ==
    CASE cur = "" -> [reason |-> r, out |-> Borrowed]
      [] cur = "transaction" -> [reason |-> cur, out |-> errBorrowedTx]
      [] cur = "subtransaction" -> [reason |-> cur, out |-> errBorrowedSubtx]
      [] OTHER -> [reason |-> cur, out |-> Panic("unexpected reason")]

\* borrow that stores the requested reason before it reports a conflict
borrowConflictOverwrites(cur, r) ==
    CASE cur = "" ->
            IF r \in {"transaction", "subtransaction"}
            THEN [reason |-> r, out |-> Borrowed]
            ELSE [reason |-> cur, out |-> Panic("unexpected reason")]
      [] cur = "transaction" -> [reason |-> r, out |-> errBorrowedTx]
      [] cur = "subtransaction" -> [reason |-> r, out |-> errBorrowedSubtx]
      [] OTHER -> [reason |-> cur, out |-> Panic("unexpected reason")]

\* borrow(reason) in state cur: the new c.reason and the outcome
borrow(cur, r) ==
    CASE cur = "" ->
            IF r \in {"transaction", "subtransaction"}
            THEN [reason |-> r, out |-> Borrowed]
            ELSE [reason |-> cur, out |-> Panic("unexpected reason")]
      [] cur = "transaction" -> [reason |-> cur, out |-> errBorrowedTx]
      [] cur = "subtransaction" -> [reason |-> cur, out |-> errBorrowedSubtx]
      [] OTHER -> [reason |-> cur, out |-> Panic("unexpected reason")]

\* unborrow without the check of c.reason
unborrowNoCheck(cur) == [reason |-> "", out |-> Returned]

\* unborrow() in state cur
unborrow(cur) ==
    IF cur = ""
    THEN [reason |-> cur,
          out |-> Panic("not currently borrowed, can not unborrow")]
    ELSE [reason |-> "", out |-> Returned]

\* assertUnborrowed that never objects
assertUnborrowedAlwaysNil(cur) == [reason |-> cur, out |-> Nil]

\* assertUnborrowed that drops the borrow it reports
assertUnborrowedResets(cur) ==
    CASE cur = "" -> [reason |-> cur, out |-> Nil]
      [] cur = "transaction" -> [reason |-> "", out |-> errBorrowedTx]
      [] cur = "subtransaction" -> [reason |-> "", out |-> errBorrowedSubtx]
      [] OTHER -> [reason |-> cur, out |-> Panic("unexpected reason")]

\* assertUnborrowed() in state cur
assertUnborrowed(cur) ==
    CASE cur = "" -> [reason |-> cur, out |-> Nil]
      [] cur = "transaction" -> [reason |-> cur, out |-> errBorrowedTx]
      [] cur = "subtransaction" -> [reason |-> cur, out |-> errBorrowedSubtx]
      [] OTHER -> [reason |-> cur, out |-> Panic("unexpected reason")]

\* what baseConn.scriptFlow / baseConn.granularFlow may return
FlowErrs == {Nil, QueryErr, errZeroResults, NetPerm1}

BorrowInit ==
    /\ reason = ""
    /\ bOp = [op |-> "new", arg |-> "", pre |-> ""]
    /\ bRet = Nil
    /\ scriptCalls = 0
    /\ granularCalls = 0
    /\ holders = 0

Borrow(r) ==
    LET b == borrow(reason, r)
    IN  /\ holders < MaxHolders
        /\ reason' = b.reason
        /\ bRet' = b.out
        /\ bOp' = [op |-> "borrow", arg |-> r, pre |-> reason]
        /\ holders' = IF b.out = Borrowed THEN holders + 1 ELSE holders
        /\ UNCHANGED <<scriptCalls, granularCalls>>

Unborrow ==
    LET u == unborrow(reason)
    IN  /\ reason' = u.reason
        /\ bRet' = u.out
        /\ bOp' = [op |-> "unborrow", arg |-> "", pre |-> reason]
        /\ holders' = IF u.out = Returned THEN holders - 1 ELSE holders
        /\ UNCHANGED <<scriptCalls, granularCalls>>

AssertUnborrowed ==
    LET a == assertUnborrowed(reason)
    IN  /\ reason' = a.reason
        /\ bRet' = a.out
        /\ bOp' = [op |-> "assertUnborrowed", arg |-> "", pre |-> reason]
        /\ UNCHANGED <<scriptCalls, granularCalls, holders>>

\* if e := c.assertUnborrowed(); e != nil { return e }
\* return c.baseConn.scriptFlow(ctx, q)
scriptFlow(op, e) ==
    LET a == assertUnborrowed(reason)
    IN  /\ reason' = a.reason
        /\ bOp' = [op |-> op, arg |-> "", pre |-> reason]
        /\ IF a.out /= Nil
           THEN /\ bRet' = a.out
                /\ UNCHANGED <<scriptCalls, granularCalls>>
           ELSE /\ scriptCalls + granularCalls < MaxFlows
                /\ scriptCalls' = scriptCalls + 1
                /\ bRet' = e
                /\ UNCHANGED granularCalls
        /\ UNCHANGED holders

\* if e := c.assertUnborrowed(); e != nil { return e }
\* return c.baseConn.granularFlow(ctx, q)
granularFlow(op, e) ==
    LET a == assertUnborrowed(reason)
    IN  /\ reason' = a.reason
        /\ bOp' = [op |-> op, arg |-> "", pre |-> reason]
        /\ IF a.out /= Nil
           THEN /\ bRet' = a.out
                /\ UNCHANGED <<scriptCalls, granularCalls>>
           ELSE /\ scriptCalls + granularCalls < MaxFlows
                /\ granularCalls' = granularCalls + 1
                /\ bRet' = e
                /\ UNCHANGED scriptCalls
        /\ UNCHANGED holders

\* runQuery(ctx, c, method, cmd, out, args): builds the query and runs it
\* through c.granularFlow
runQuery(method, e) == granularFlow(method, e)

BIdle == UNCHANGED <<poolVars, wrapVars, decodeVars, raceVars>>

GuardBorrow == (\E r \in Reasons : Borrow(r)) /\ BIdle
GuardUnborrow == Unborrow /\ BIdle
GuardAssertUnborrowed == AssertUnborrowed /\ BIdle
ConnScriptFlow == (\E e \in FlowErrs : scriptFlow("scriptFlow", e)) /\ BIdle
ConnGranularFlow == (\E e \in FlowErrs : granularFlow("granularFlow", e)) /\ BIdle
\* Execute: c.scriptFlow(ctx, sfQuery{cmd: cmd, headers: c.headers()})
ConnExecute == (\E e \in FlowErrs : scriptFlow("Execute", e)) /\ BIdle
ConnQuery == (\E e \in FlowErrs : runQuery("Query", e)) /\ BIdle
ConnQueryOne == (\E e \in FlowErrs : runQuery("QueryOne", e)) /\ BIdle
ConnQueryJSON == (\E e \in FlowErrs : runQuery("QueryJSON", e)) /\ BIdle
ConnQueryOneJSON == (\E e \in FlowErrs : runQuery("QueryOneJSON", e)) /\ BIdle

BorrowNext ==
    \/ GuardBorrow
    \/ GuardUnborrow
    \/ GuardAssertUnborrowed
    \/ ConnScriptFlow
    \/ ConnGranularFlow
    \/ ConnExecute
    \/ ConnQuery
    \/ ConnQueryOne
    \/ ConnQueryJSON
    \/ ConnQueryOneJSON

(***************************************************************************)
(* wrapAll applied to argument lists                                       *)
(***************************************************************************)
\* all sequences over S of length at most n
SeqsUpTo(S, n) == UNION {[1..k -> S] : k \in 0..n}

WrapArgs == {Nil, QueryErr, Unexpected1, PlainErr,
             wrapAll(<<NetPerm1, QueryErr>>)}

WrapInit ==
    /\ wIn \in SeqsUpTo(WrapArgs, MaxErrs)
    /\ wOut = NotRun

WrapAll ==
    /\ wOut = NotRun
    /\ wOut' = wrapAll(wIn)
    /\ UNCHANGED <<wIn, poolVars, borrowVars, decodeVars, raceVars>>

WrapNext == WrapAll

(***************************************************************************)
(* decodeError (src/error.go:58-141)                                       *)
(* Text is a sequence of bytes, each byte a one-character string; "C3" and *)
(* "A9" are the two bytes of the UTF-8 encoding of one two-byte character. *)
(***************************************************************************)
hint == 1
positionStart == 65521
lineStart == 65523

DigitChars == <<"0", "1", "2", "3", "4", "5", "6", "7", "8", "9">>
IsDigit(c) == \E i \in 1..10 : DigitChars[i] = c
DigitVal(c) == (CHOOSE i \in 1..10 : DigitChars[i] = c) - 1

RECURSIVE NatOf(_)
NatOf(ds) ==
    IF Len(ds) = 0 THEN 0
    ELSE 10 * NatOf(SubSeq(ds, 1, Len(ds) - 1)) + DigitVal(ds[Len(ds)])

\* strconv.Atoi(s): an optional sign and at least one decimal digit
\* (values stay far from the int range at the bounds used here)
Atoi(s) ==
    LET signed == Len(s) > 0 /\ s[1] \in {"+", "-"}
        ds == IF signed THEN Tail(s) ELSE s
        ok == Len(ds) > 0 /\ \A i \in 1..Len(ds) : IsDigit(ds[i])
    IN  [ok |-> ok,
         val |-> IF ~ok THEN 0
                 ELSE IF signed /\ s[1] = "-" THEN 0 - NatOf(ds)
                 ELSE NatOf(ds)]

\* atoiOrPanic(s)
atoiOrPanic(s) ==
    IF Atoi(s).ok THEN [kind |-> "int", val |-> Atoi(s).val]
    ELSE Panic("strconv.Atoi: invalid syntax")

\* fmt's %v of an int
RECURSIVE NatStr(_)
NatStr(n) ==
    IF n < 10 THEN <<DigitChars[n + 1]>>
    ELSE Append(NatStr(n \div 10), DigitChars[(n % 10) + 1])
Itoa(n) == IF n < 0 THEN <<"-">> \o NatStr(0 - n) ELSE NatStr(n)

\* headers[r.PopUint16()] = r.PopString(), for each header in order:
\* a later value of a key replaces an earlier one
headerMap(hs) ==
    [k \in {hs[i].key : i \in 1..Len(hs)} |->
        hs[CHOOSE i \in 1..Len(hs) :
              /\ hs[i].key = k
              /\ \A j \in 1..Len(hs) : hs[j].key = k => j <= i].val]

\* positionFromHeaders that ignores the "ok" of the positionStart lookup: a
\* missing key reads as the empty string
positionFromHeadersNoByteCheck(headers) ==
    IF lineStart \notin DOMAIN headers
    THEN [kind |-> "pos", ok |-> FALSE, lineNo |-> 0, byteNo |-> 0]
    ELSE LET l == atoiOrPanic(headers[lineStart])
             b == atoiOrPanic(IF positionStart \in DOMAIN headers
                              THEN headers[positionStart] ELSE <<>>)
         IN  IF l.kind = "panic" THEN l
             ELSE IF b.kind = "panic" THEN b
             ELSE [kind |-> "pos", ok |-> TRUE,
                   lineNo |-> l.val - 1, byteNo |-> b.val]

\* positionFromHeaders(headers)
positionFromHeaders(headers) ==
    IF lineStart \notin DOMAIN headers
    THEN [kind |-> "pos", ok |-> FALSE, lineNo |-> 0, byteNo |-> 0]
    ELSE IF positionStart \notin DOMAIN headers
    THEN [kind |-> "pos", ok |-> FALSE, lineNo |-> 0, byteNo |-> 0]
    ELSE LET l == atoiOrPanic(headers[lineStart])
             b == atoiOrPanic(headers[positionStart])
         IN  IF l.kind = "panic" THEN l
             ELSE IF b.kind = "panic" THEN b
             ELSE [kind |-> "pos", ok |-> TRUE,
                   lineNo |-> l.val - 1, byteNo |-> b.val]

\* strings.Split(query, "\n")
RECURSIVE SplitLines(_, _, _)
SplitLines(q, i, cur) ==
    IF i > Len(q) THEN <<cur>>
    ELSE IF q[i] = "\n" THEN <<cur>> \o SplitLines(q, i + 1, <<>>)
    ELSE SplitLines(q, i + 1, Append(cur, q[i]))

\* strings.ReplaceAll(line, "\t", " ")
ReplaceTabs(line) == [i \in 1..Len(line) |-> IF line[i] = "\t" THEN " " ELSE line[i]]

\* the loop without the byte of the line separator
RECURSIVE SubtractLinesNoNewline(_, _, _, _)
SubtractLinesNoNewline(lines, i, lineNo, byteNo) ==
    IF i >= lineNo THEN byteNo
    ELSE SubtractLinesNoNewline(lines, i + 1, lineNo,
                                byteNo - Len(lines[i + 1]))

\* for i := 0; i < pos.lineNo; i++ { pos.byteNo -= 1 + len(lines[i]) }
RECURSIVE SubtractLines(_, _, _, _)
SubtractLines(lines, i, lineNo, byteNo) ==
    IF i >= lineNo THEN byteNo
    ELSE SubtractLines(lines, i + 1, lineNo, byteNo - (1 + Len(lines[i + 1])))

\* utf8.RuneCountInString(s): a lead byte with its continuation byte is one
\* rune; any other byte, also a lead or a continuation byte on its own, is
\* one rune
LeadBytes == {"C3"}
ContBytes == {"A9"}

\* len(s) in the place of utf8.RuneCountInString(s)
RuneCountBytes(s, i) == Len(s) - i + 1

RECURSIVE RuneCount(_, _)
RuneCount(s, i) ==
    IF i > Len(s) THEN 0
    ELSE IF s[i] \in LeadBytes /\ i + 1 <= Len(s) /\ s[i + 1] \in ContBytes
    THEN 1 + RuneCount(s, i + 2)
    ELSE 1 + RuneCount(s, i + 1)

\* strings.Repeat(" ", n)
Spaces(n) == [i \in 1..n |-> " "]

\* errorFromCode(code, msg): the Error value of the code, carrying msg
errorFromCode(code, msg) == [kind |-> "edb", code |-> code, msg |-> msg]

defaultHint == <<"e", "r", "r", "o", "r">>

\* decodeError(r, query), r holding the payload p = [code, msg, headers]
decodeError(p, query) ==
    LET headers == headerMap(p.headers)
        pos == positionFromHeaders(headers)
    IN  IF pos.kind = "panic" THEN pos
        ELSE IF ~pos.ok THEN errorFromCode(p.code, p.msg)
        ELSE
        LET hintmsg == IF hint \in DOMAIN headers THEN headers[hint]
                       ELSE defaultHint
            lines == SplitLines(query, 1, <<>>)
        IN  IF pos.lineNo < 0 \/ pos.lineNo >= Len(lines)
            THEN Panic("index out of range")
            ELSE
            LET line == ReplaceTabs(lines[pos.lineNo + 1])
                byteNo == SubtractLines(lines, 0, pos.lineNo, pos.byteNo)
            IN  IF byteNo < 0 \/ byteNo > Len(line)
                THEN Panic("slice bounds out of range")
                ELSE
                LET runeCount == RuneCount(SubSeq(line, 1, byteNo), 1)
                    padding == Spaces(runeCount)
                IN  errorFromCode(p.code,
                        p.msg \o <<"\n", "q", "u", "e", "r", "y", ":">>
                        \o Itoa(1 + pos.lineNo) \o <<":">>
                        \o Itoa(1 + runeCount) \o <<"\n", "\n">>
                        \o line \o <<"\n">>
                        \o padding \o <<"^", " ">> \o hintmsg)

\* the payloads and query texts decodeError is applied to
QueryBytes == {"a", "\n", "\t", "C3", "A9"}
Queries == SeqsUpTo(QueryBytes, MaxQueryLen)
HeaderPairs ==
    {[key |-> lineStart, val |-> v] : v \in {<<"1">>, <<"2">>, <<"x">>}}
    \cup {[key |-> positionStart, val |-> v] :
             v \in {<<"0">>, <<"1">>, <<"2">>, <<"3">>}}
    \cup {[key |-> hint, val |-> <<"h", "i", "n", "t">>]}
HeaderLists == SeqsUpTo(HeaderPairs, MaxHeaders)
oops == <<"o", "o", "p", "s">>

\* the query text "SELECT 1\nSELECT x" with the payloads that point into it:
\* line 2 with byte position 7, and line 2 with byte position 11
selectQuery ==
    <<"S", "E", "L", "E", "C", "T", " ", "1", "\n",
      "S", "E", "L", "E", "C", "T", " ", "x">>
ExamplePayload(position) ==
    [code |-> 1, msg |-> oops,
     headers |-> <<[key |-> lineStart, val |-> <<"2">>],
                   [key |-> positionStart, val |-> position]>>,
     query |-> selectQuery]
ExamplePayloads == {ExamplePayload(<<"7">>), ExamplePayload(<<"1", "1">>)}

DecodeInit ==
    /\ \/ \E hs \in HeaderLists, q \in Queries :
             dIn = [code |-> 1, msg |-> oops, headers |-> hs, query |-> q]
       \/ dIn \in ExamplePayloads
    /\ dOut = NotRun

DecodeError ==
    /\ dOut = NotRun
    /\ dOut' = decodeError([code |-> dIn.code, msg |-> dIn.msg,
                            headers |-> dIn.headers], dIn.query)
    /\ UNCHANGED <<dIn, poolVars, borrowVars, wrapVars, raceVars>>

DecodeNext == DecodeError

(***************************************************************************)
(* Goroutines sharing one borrowableConn (src/borrow.go:31-103).  The code *)
(* takes no lock: borrow reads c.reason in its first switch and stores the *)
(* new reason in its second, a facade method checks c.reason and then runs *)
(* the base flow, and other goroutines may run between these steps.  A     *)
(* read or a store of c.reason that runs beside another goroutine's store  *)
(* is a data race: the string may then be seen or left as a mix of the two *)
(* values, which matches no case of the switches.                          *)
(***************************************************************************)
Goroutines == 1..NumGoroutines

\* a string header that mixes the pointer of one value and the length of
\* another
TornReason == "subtransact"

\* another goroutine is between the two switches of borrow
InBorrow(g) == \E h \in Goroutines \ {g} : pc[h] = "borrowChecked"

\* what a read of c.reason by g may see
Visible(g) ==
    {reason} \cup
    IF \E h \in Goroutines \ {g} : pc[h] = "borrowChecked" /\ want[h] /= reason
    THEN {TornReason} ELSE {}

\* what c.reason may hold after g stores v
Stored(g, v) ==
    {v} \cup IF reason \notin {"", v} THEN {TornReason} ELSE {}

\* another goroutine is inside a facade method, past its check
InFacade(g) ==
    \E h \in Goroutines \ {g} : pc[h] \in {"flowChecked", "inFlow"}

RaceInit ==
    /\ pc = [g \in Goroutines |-> "idle"]
    /\ call = [g \in Goroutines |-> "none"]
    /\ want = [g \in Goroutines |-> ""]
    /\ cRet = [g \in Goroutines |-> Nil]
    /\ overlapped = [borrows |-> FALSE, facade |-> FALSE]

\* borrow, up to the end of "switch c.reason"; the requested reason is
\* examined right after, with no access to c.reason in between
BorrowRead(g, r) ==
    /\ pc[g] = "idle"
    /\ \E seen \in Visible(g) :
          LET b == borrow(seen, r)
          IN  IF b.out = Borrowed
              THEN /\ pc' = [pc EXCEPT ![g] = "borrowChecked"]
                   /\ want' = [want EXCEPT ![g] = b.reason]
                   /\ cRet' = cRet
              ELSE /\ cRet' = [cRet EXCEPT ![g] = b.out]
                   /\ UNCHANGED <<pc, want>>
    /\ call' = [call EXCEPT ![g] = "borrow"]
    /\ overlapped' = [borrows |-> overlapped.borrows \/ InBorrow(g),
                      facade |-> overlapped.facade \/ InFacade(g)]
    /\ UNCHANGED reason

\* c.reason = reason; return c.baseConn, nil
BorrowWrite(g) ==
    /\ pc[g] = "borrowChecked"
    /\ reason' \in Stored(g, want[g])
    /\ pc' = [pc EXCEPT ![g] = "holding"]
    /\ want' = [want EXCEPT ![g] = ""]
    /\ cRet' = [cRet EXCEPT ![g] = Borrowed]
    /\ UNCHANGED <<call, overlapped>>

\* unborrow(), called by a goroutine that holds the base connection
UnborrowCall(g) ==
    /\ pc[g] = "holding"
    /\ LET u == unborrow(reason)
       IN  /\ reason' = u.reason
           /\ cRet' = [cRet EXCEPT ![g] = u.out]
    /\ pc' = [pc EXCEPT ![g] = "idle"]
    /\ call' = [call EXCEPT ![g] = "unborrow"]
    /\ UNCHANGED <<want, overlapped>>

\* a facade method: if e := c.assertUnborrowed(); e != nil { return e }
FacadeCheck(g) ==
    /\ pc[g] = "idle"
    /\ \E seen \in Visible(g) :
          LET a == assertUnborrowed(seen)
          IN  IF a.out = Nil
              THEN /\ pc' = [pc EXCEPT ![g] = "flowChecked"]
                   /\ cRet' = cRet
              ELSE /\ cRet' = [cRet EXCEPT ![g] = a.out]
                   /\ pc' = pc
    /\ call' = [call EXCEPT ![g] = "facade"]
    /\ overlapped' = [overlapped EXCEPT !.facade = @ \/ InBorrow(g)]
    /\ UNCHANGED <<reason, want>>

\* the call of c.baseConn.scriptFlow / c.baseConn.granularFlow begins
FlowStart(g) ==
    /\ pc[g] = "flowChecked"
    /\ pc' = [pc EXCEPT ![g] = "inFlow"]
    /\ UNCHANGED <<reason, call, want, cRet, overlapped>>

\* the base flow returns e, which the facade method returns
FlowEnd(g, e) ==
    /\ pc[g] = "inFlow"
    /\ pc' = [pc EXCEPT ![g] = "idle"]
    /\ cRet' = [cRet EXCEPT ![g] = e]
    /\ UNCHANGED <<reason, call, want, overlapped>>

RIdle ==
    UNCHANGED <<poolVars, wrapVars, decodeVars,
                bOp, bRet, scriptCalls, granularCalls, holders>>

RaceBorrowRead ==
    (\E g \in Goroutines, r \in Reasons : BorrowRead(g, r)) /\ RIdle
RaceBorrowWrite == (\E g \in Goroutines : BorrowWrite(g)) /\ RIdle
RaceUnborrow == (\E g \in Goroutines : UnborrowCall(g)) /\ RIdle
RaceFacadeCheck == (\E g \in Goroutines : FacadeCheck(g)) /\ RIdle
RaceFlowStart == (\E g \in Goroutines : FlowStart(g)) /\ RIdle
RaceFlowEnd ==
    (\E g \in Goroutines, e \in FlowErrs : FlowEnd(g, e)) /\ RIdle

RaceNext ==
    \/ RaceBorrowRead
    \/ RaceBorrowWrite
    \/ RaceUnborrow
    \/ RaceFacadeCheck
    \/ RaceFlowStart
    \/ RaceFlowEnd

(***************************************************************************)
(* Specifications                                                          *)
(***************************************************************************)
WrapIdleInit == wIn = <<>> /\ wOut = NotRun
DecodeIdleInit == dIn = <<>> /\ dOut = NotRun

Init == PoolInit /\ BorrowInit /\ WrapIdleInit /\ DecodeIdleInit /\ RaceInit
Next == PoolNext
Spec == Init /\ [][Next]_vars

SpecBorrow == Init /\ [][BorrowNext]_vars

SpecRace == Init /\ [][RaceNext]_vars

InitWrap == PoolInit /\ BorrowInit /\ WrapInit /\ DecodeIdleInit /\ RaceInit
SpecWrap == InitWrap /\ [][WrapNext]_vars

InitDecode == PoolInit /\ BorrowInit /\ WrapIdleInit /\ DecodeInit /\ RaceInit
SpecDecode == InitDecode /\ [][DecodeNext]_vars

(***************************************************************************)
(* Properties                                                              *)
(***************************************************************************)
CallOps == {"Execute", "Query", "QueryOne", "QueryJSON", "QueryOneJSON",
            "TryTx", "Retry"}
FacadeOps == {"Execute", "scriptFlow", "granularFlow", "Query", "QueryOne",
              "QueryJSON", "QueryOneJSON"}
ScriptOps == {"Execute", "scriptFlow"}
ValidReasons == {"transaction", "subtransaction"}
ConflictErrs == {errBorrowedTx, errBorrowedSubtx}
IsInterfaceError(e) == e.kind = "edb" /\ "InterfaceError" \in e.cats
Mentions(msg, word) == \E i \in 1..Len(msg) : msg[i] = word

\* C1: over any sequence of operations on a pool handle the pool's release
\* routine is invoked at most once: the first Release() invokes it exactly
\* once, every later Release() returns the "connection released more than
\* once" interface error and does not invoke it.
C1_ReleaseOnce ==
    /\ Len(released) <= 1
    /\ (nRelease >= 1 => Len(released) = 1)
    /\ (ret.op = "Release" /\ nRelease >= 2 =>
            /\ ret.val = errReleasedTwice
            /\ IsInterfaceError(ret.val))

C1_Witness ==
    /\ nRelease = 2
    /\ ret.op = "Release"
    /\ ret.val = errReleasedTwice
    /\ Len(released) = 1

\* an error that is a permanent network error or in the "unexpected
\* message" category, as errors.As and Category classify the returned value
HealthImpairing(e) ==
    \/ (AsNetErr(e) /= Nil /\ AsNetErr(e).perm)
    \/ (AsError(e) /= Nil /\ "UnexpectedMessageError" \in AsError(e).cats)

\* C2: the health error the pool's release routine receives is non-nil
\* exactly when one of the calls made on the handle before Release()
\* returned a permanent network error or an error of the "unexpected
\* message" category; successes and ordinary errors, before or after such
\* an error, neither set nor clear it.
C2_HealthIffImpaired ==
    LET impaired == \E i \in 1..Len(returned) : HealthImpairing(returned[i])
    IN  /\ (pool /= NIL => ((err /= Nil) <=> impaired))
        /\ (Len(released) >= 1 => ((released[1].err /= Nil) <=> impaired))

C2_Witness ==
    /\ Len(released) = 1
    /\ released[1].err = NetPerm1
    /\ returned = <<errZeroResults, NetPerm1, Nil>>

\* C3: borrow with a valid reason succeeds exactly when the connection is
\* unborrowed; while borrowed every further borrow fails with an interface
\* error that mentions "transaction" and leaves the borrower in place; a
\* successful unborrow returns to the unborrowed state, where borrow
\* succeeds again; at most one borrow is outstanding.
C3_BorrowExclusive ==
    /\ holders <= 1
    /\ (holders = 1 <=> reason \in ValidReasons)
    /\ (bOp.op = "borrow" /\ bOp.arg \in ValidReasons =>
            /\ (bRet = Borrowed <=> bOp.pre = "")
            /\ (bOp.pre = "" => reason = bOp.arg)
            /\ (bOp.pre /= "" =>
                    /\ IsInterfaceError(bRet)
                    /\ Mentions(bRet.msg, "transaction")
                    /\ reason = bOp.pre))
    /\ (bOp.op = "unborrow" /\ bRet = Returned =>
            /\ reason = ""
            /\ \A r \in ValidReasons : borrow(reason, r).out = Borrowed)

C3_Witness ==
    /\ bOp = [op |-> "borrow", arg |-> "subtransaction", pre |-> "transaction"]
    /\ bRet = errBorrowedTx
    /\ reason = "transaction"
    /\ holders = 1

\* C4: a facade entry point called while the connection is borrowed
\* returns the borrow-conflict interface error and starts no flow of the
\* base connection; called while unborrowed it starts the base
\* connection's flow exactly once (the script flow for Execute and
\* scriptFlow, the granular flow for the others).
C4_FacadeGuarded ==
    [][bOp'.op \in FacadeOps =>
          IF reason \in ValidReasons
          THEN /\ bRet' \in ConflictErrs
               /\ IsInterfaceError(bRet')
               /\ scriptCalls' = scriptCalls
               /\ granularCalls' = granularCalls
          ELSE IF bOp'.op \in ScriptOps
          THEN scriptCalls' = scriptCalls + 1 /\ granularCalls' = granularCalls
          ELSE granularCalls' = granularCalls + 1 /\ scriptCalls' = scriptCalls
      ]_vars

C4_Witness ==
    /\ bOp = [op |-> "QueryOneJSON", arg |-> "", pre |-> "subtransaction"]
    /\ bRet = errBorrowedSubtx
    /\ scriptCalls = 1
    /\ granularCalls = 0

\* C5: assertUnborrowed() leaves the borrow state as it was, when it
\* returns nil (unborrowed) and when it returns the conflict error
\* (borrowed), and so does a facade entry point it rejects.
C5_AssertKeepsState ==
    [][/\ (bOp'.op = "assertUnborrowed" =>
              /\ reason' = reason
              /\ (reason = "" => bRet' = Nil)
              /\ (reason \in ValidReasons => bRet' \in ConflictErrs))
       /\ (bOp'.op \in FacadeOps /\ reason \in ValidReasons =>
              reason' = reason)
      ]_vars

C5_Witness ==
    /\ bOp = [op |-> "assertUnborrowed", arg |-> "", pre |-> "transaction"]
    /\ bRet = errBorrowedTx
    /\ reason = "transaction"

\* C6: once Release() has handed the connection back, the handle holds
\* neither the connection nor the pool, and no call made through the
\* handle reaches that connection.
C6_NoUseAfterRelease ==
    /\ strayCalls = 0
    /\ (released /= <<>> => conn = NIL /\ pool = NIL)
    /\ (ret.op \in CallOps /\ ret.val.kind = "panic" => released /= <<>>)

C6_Witness ==
    /\ released /= <<>>
    /\ ret.op = "Execute"
    /\ ret.val.kind = "panic"
    /\ Len(returned) = 1

\* C7 as claimed: borrow with a reason other than "transaction" or
\* "subtransaction" aborts in every borrow state and never sets the state.
C7_Original ==
    bOp.op = "borrow" /\ bOp.arg \notin ValidReasons =>
        bRet.kind = "panic" /\ reason = bOp.pre

\* C7: borrow with a reason other than "transaction" or "subtransaction"
\* never sets the borrow state; it aborts when the connection is
\* unborrowed, and returns the borrow-conflict interface error of the
\* current borrower when the connection is borrowed.
C7_InvalidReason ==
    bOp.op = "borrow" /\ bOp.arg \notin ValidReasons =>
        /\ reason = bOp.pre
        /\ (bOp.pre = "" => bRet.kind = "panic")
        /\ (bOp.pre = "transaction" => bRet = errBorrowedTx)
        /\ (bOp.pre = "subtransaction" => bRet = errBorrowedSubtx)

C7_Witness ==
    /\ bOp = [op |-> "borrow", arg |-> "savepoint", pre |-> ""]
    /\ bRet.kind = "panic"
    /\ reason = ""

\* C8: unborrow() aborts when the connection is unborrowed; when it is
\* borrowed for a transaction or a subtransaction it resets the state to
\* unborrowed, where assertUnborrowed() returns nil.
C8_Unborrow ==
    bOp.op = "unborrow" =>
        /\ (bOp.pre = "" => bRet.kind = "panic" /\ reason = "")
        /\ (bOp.pre \in ValidReasons =>
                /\ bRet = Returned
                /\ reason = ""
                /\ assertUnborrowed(reason).out = Nil)

C8_Witness ==
    /\ bOp = [op |-> "unborrow", arg |-> "", pre |-> "subtransaction"]
    /\ bRet = Returned
    /\ reason = ""

\* the messages of a non-empty list of errors joined by "; "
RECURSIVE Joined(_)
Joined(es) ==
    IF Len(es) = 1 THEN es[1].msg
    ELSE Joined(SubSeq(es, 1, Len(es) - 1)) \o "; " \o es[Len(es)].msg

\* C9: wrapAll ignores its nil arguments; with no other argument it
\* returns nil, with one it returns that error itself, with two or more it
\* returns an aggregate of exactly the non-nil errors in input order whose
\* message is their messages joined by "; ".
C9_WrapAll ==
    wOut /= NotRun =>
        LET idx == {i \in 1..Len(wIn) : wIn[i] /= Nil}
            n == Cardinality(idx)
            \* the index of the k-th non-nil argument
            nth(k) == CHOOSE i \in idx :
                          Cardinality({j \in idx : j < i}) = k - 1
        IN  /\ (n = 0 => wOut = Nil)
            /\ (n = 1 => wOut = wIn[nth(1)])
            /\ (n >= 2 =>
                    /\ wOut.kind = "many"
                    /\ Len(wOut.errs) = n
                    /\ \A k \in 1..n : wOut.errs[k] = wIn[nth(k)]
                    /\ wOut.msg = Joined([k \in 1..n |-> wIn[nth(k)]]))

C9_Witness ==
    /\ wIn = <<QueryErr, Nil, Unexpected1>>
    /\ wOut.kind = "many"
    /\ wOut.msg = "invalid reference; unexpected message"

HasHeader(hs, key) == \E i \in 1..Len(hs) : hs[i].key = key

\* C10: when the payload lacks the line-start header or the
\* position-start header, decodeError returns the error of the code with
\* the server's message unchanged, whatever the query text and the hint.
C10_NoPositionNoBlock ==
    /\ dOut /= NotRun
    /\ (~HasHeader(dIn.headers, lineStart)
            \/ ~HasHeader(dIn.headers, positionStart))
    => /\ dOut.kind = "edb"
       /\ dOut.code = dIn.code
       /\ dOut.msg = dIn.msg

C10_Witness ==
    /\ dOut /= NotRun
    /\ HasHeader(dIn.headers, lineStart)
    /\ HasHeader(dIn.headers, hint)
    /\ ~HasHeader(dIn.headers, positionStart)
    /\ Len(dIn.query) = MaxQueryLen
    /\ dOut.msg = oops

\* the value of the last header with the given key
LastVal(hs, key) ==
    hs[CHOOSE i \in 1..Len(hs) :
          /\ hs[i].key = key
          /\ \A j \in (i + 1)..Len(hs) : hs[j].key /= key].val

BothPositionHeaders ==
    HasHeader(dIn.headers, lineStart) /\ HasHeader(dIn.headers, positionStart)

\* the places of the line separators in q
NewlineIdx(q) == {i \in 1..Len(q) : q[i] = "\n"}
\* the n-th (from 1) line separator of q
NthNewline(q, n) ==
    CHOOSE i \in NewlineIdx(q) : Cardinality({j \in NewlineIdx(q) : j <= i}) = n
\* the number of bytes of q before its line n (from 0): the bytes of every
\* preceding line, each with its separator
BytesBeforeLine(q, n) == IF n = 0 THEN 0 ELSE NthNewline(q, n)
\* line n (from 0) of q, as displayed (a tab shown as one space)
DisplayedLine(q, n) ==
    LET from == BytesBeforeLine(q, n)
        to == IF Cardinality(NewlineIdx(q)) > n
              THEN NthNewline(q, n + 1) - 1 ELSE Len(q)
    IN  [i \in 1..(to - from) |->
            IF q[from + i] = "\t" THEN " " ELSE q[from + i]]
\* the Unicode scalar values in the first off bytes of line: every byte but
\* a continuation byte that completes the lead byte before it
ScalarsBefore(line, off) ==
    Cardinality({i \in 1..off :
        ~(i > 1 /\ line[i] \in ContBytes /\ line[i - 1] \in LeadBytes)})

\* C11: when both position headers are present and decodeError returns, the
\* message is the server's message followed by "query:<line>:<column>",
\* the source line and the caret line, where <column> is 1 plus the number
\* of Unicode scalar values before the in-line byte offset (the position
\* header minus the bytes of every preceding line and its separator) and
\* the caret is padded with that number of spaces.
C11_ColumnCountsScalars ==
    dOut.kind = "edb" /\ BothPositionHeaders =>
        LET n == Atoi(LastVal(dIn.headers, lineStart)).val - 1
            off == Atoi(LastVal(dIn.headers, positionStart)).val
                   - BytesBeforeLine(dIn.query, n)
            line == DisplayedLine(dIn.query, n)
            col == ScalarsBefore(line, off)
            hintmsg == IF HasHeader(dIn.headers, hint)
                       THEN LastVal(dIn.headers, hint) ELSE defaultHint
        IN  dOut.msg =
                dIn.msg \o <<"\n", "q", "u", "e", "r", "y", ":">>
                \o Itoa(n + 1) \o <<":">> \o Itoa(col + 1) \o <<"\n", "\n">>
                \o line \o <<"\n">>
                \o [i \in 1..col |-> " "] \o <<"^", " ">> \o hintmsg

\* a two-byte character before the offset on the second line: byte offset 2
\* in the line, column 2
C11_Witness ==
    /\ dIn.query = <<"\n", "C3", "A9">>
    /\ dIn.headers = <<[key |-> lineStart, val |-> <<"2">>],
                       [key |-> positionStart, val |-> <<"3">>]>>
    /\ dOut.kind = "edb"
    /\ dOut.msg = oops \o <<"\n", "q", "u", "e", "r", "y", ":", "2", ":", "2",
                           "\n", "\n", "C3", "A9", "\n", " ", "^", " ">>
                       \o defaultHint

\* s ends in t
EndsWith(s, t) ==
    Len(s) >= Len(t) /\ SubSeq(s, Len(s) - Len(t) + 1, Len(s)) = t

\* "query:2:3\n\nSELECT x\n  ^ error"
exampleTail ==
    <<"q", "u", "e", "r", "y", ":", "2", ":", "3", "\n", "\n",
      "S", "E", "L", "E", "C", "T", " ", "x", "\n",
      " ", " ", "^", " ", "e", "r", "r", "o", "r">>

\* C12 as claimed: decoding code 0x01, message "oops", lineStart "2",
\* positionStart "7" and the query "SELECT 1\nSELECT x" returns an error
\* whose message ends in "query:2:3\n\nSELECT x\n  ^ error".
C12_Original ==
    dIn = ExamplePayload(<<"7">>) /\ dOut /= NotRun =>
        dOut.kind = "edb" /\ EndsWith(dOut.msg, exampleTail)

\* C12: with positionStart "11", the byte offset in the whole query text of
\* the third character of line 2, the message is "oops" followed by
\* "\nquery:2:3\n\nSELECT x\n  ^ error"; with positionStart "7", an offset
\* inside line 1, decodeError aborts with a slice bound out of range.
C12_WorkedExample ==
    /\ (dIn = ExamplePayload(<<"1", "1">>) /\ dOut /= NotRun =>
            /\ dOut.kind = "edb"
            /\ dOut.code = 1
            /\ dOut.msg = oops \o <<"\n">> \o exampleTail)
    /\ (dIn = ExamplePayload(<<"7">>) /\ dOut /= NotRun =>
            dOut = Panic("slice bounds out of range"))

C12_Witness ==
    /\ dIn = ExamplePayload(<<"1", "1">>)
    /\ dOut.kind = "edb"
    /\ EndsWith(dOut.msg, exampleTail)

\* the calls, in order, that returned a health-impairing error
ImpairingCalls == {i \in 1..Len(returned) : HealthImpairing(returned[i])}
FirstImpairing ==
    IF ImpairingCalls = {} THEN Nil
    ELSE returned[CHOOSE i \in ImpairingCalls : \A j \in ImpairingCalls : i <= j]
LastImpairing ==
    IF ImpairingCalls = {} THEN Nil
    ELSE returned[CHOOSE i \in ImpairingCalls : \A j \in ImpairingCalls : i >= j]

\* C13 as claimed: of several health-impairing errors returned before
\* Release, the first is the one recorded on the handle and passed to the
\* pool's release routine.
C13_Original ==
    /\ (pool /= NIL => err = FirstImpairing)
    /\ (Len(released) >= 1 => released[1].err = FirstImpairing)

\* C13: of several health-impairing errors returned before Release, the
\* last is the one recorded on the handle and passed to the pool's release
\* routine: every such error replaces the one recorded before it.
C13_LastImpairingWins ==
    /\ (pool /= NIL => err = LastImpairing)
    /\ (Len(released) >= 1 => released[1].err = LastImpairing)

C13_Witness ==
    /\ returned = <<NetPerm1, QueryErr, Unexpected1>>
    /\ Len(released) = 1
    /\ released[1].err = Unexpected1

\* C16: the first Release clears the pool, conn and err fields and returns
\* the very value pool.release returned, an error included; after it the
\* handle is inert: a further Release returns the "released more than once"
\* interface error and pool.release is not invoked again.
C16_ReleaseReturnsPoolResult ==
    /\ (ret.op = "Release" /\ nRelease = 1 =>
            /\ Len(released) = 1
            /\ ret.val = released[1].out
            /\ pool = NIL /\ conn = NIL /\ err = Nil)
    /\ (ret.op = "Release" /\ nRelease >= 2 =>
            /\ ret.val = errReleasedTwice
            /\ Len(released) = 1
            /\ pool = NIL /\ conn = NIL /\ err = Nil)
    /\ (nRelease >= 1 => Len(released) = 1)

\* the first Release failed in the pool, the second was refused
C16_Witness ==
    /\ nRelease = 2
    /\ ret = [op |-> "Release", val |-> errReleasedTwice]
    /\ Len(released) = 1
    /\ released[1].out = PoolCloseErr
    /\ pool = NIL /\ conn = NIL /\ err = Nil

\* an aggregate of two or more errors with a constituent of the
\* "unexpected message" category
HasUnexpectedConstituent(e) ==
    /\ e.kind = "many"
    /\ Len(e.errs) >= 2
    /\ \E i \in 1..Len(e.errs) :
          e.errs[i].kind = "edb" /\ "UnexpectedMessageError" \in e.errs[i].cats

\* C17 as claimed: a call that returned an aggregate with a constituent of
\* the "unexpected message" category, at whatever position, leaves a
\* non-nil health error on the handle, and Release passes a non-nil health
\* error to the pool.
C17_AggregateMarksHandle ==
    (\E i \in 1..Len(returned) : HasUnexpectedConstituent(returned[i])) =>
        /\ (pool /= NIL => err /= Nil)
        /\ (Len(released) >= 1 => released[1].err /= Nil)

Holding == {g \in Goroutines : pc[g] = "holding"}

\* C14 as claimed: of the borrow calls that goroutines make on one
\* unborrowed connection with their steps interleaved, at most one succeeds.
C14_Original == Cardinality(Holding) <= 1

\* C14: as long as no borrow call has begun while another goroutine was
\* between the read of c.reason and the store of its own reason, at most
\* one goroutine holds the base connection: of borrow calls made one after
\* the other on an unborrowed connection, one succeeds.
C14_SerialBorrowExclusive ==
    ~overlapped.borrows => Cardinality(Holding) <= 1

\* two borrow calls, one after the other: the first holds the connection,
\* the second was refused
C14_Witness ==
    /\ ~overlapped.borrows
    /\ pc[1] = "holding" /\ call[1] = "borrow"
    /\ pc[2] = "idle" /\ call[2] = "borrow"
    /\ cRet[2] = errBorrowedTx
    /\ reason = "transaction"

\* C15 as claimed: whatever the interleaving of a facade call (the check of
\* assertUnborrowed, then the base flow) with a borrow by another
\* goroutine, no base flow is in progress while the connection is borrowed.
C15_Original ==
    \A g \in Goroutines :
        pc[g] = "inFlow" => reason = "" /\ Holding = {}

\* C15: as long as no borrow call has run beside a facade call or beside
\* another borrow call, a facade call is past its check, and its base flow
\* in progress, only while the connection is unborrowed and no goroutine
\* holds it.
C15_SerialFacadeGuarded ==
    ~overlapped.borrows /\ ~overlapped.facade =>
        \A g \in Goroutines :
            pc[g] \in {"flowChecked", "inFlow"} => reason = "" /\ Holding = {}

\* a facade call made while another goroutine holds the connection was
\* refused
C15_Witness ==
    /\ ~overlapped.borrows /\ ~overlapped.facade
    /\ pc[1] = "holding" /\ reason = "subtransaction"
    /\ call[2] = "facade" /\ pc[2] = "idle"
    /\ cRet[2] = errBorrowedSubtx

\* the value of a header is an integer
IntHeader(hs, key) == HasHeader(hs, key) /\ Atoi(LastVal(hs, key)).ok

\* C18 as claimed: with both position headers present and holding
\* integers, decodeError returns an error value for every query text.
C18_AbortsOnlyOnNonInteger ==
    /\ dOut /= NotRun
    /\ IntHeader(dIn.headers, lineStart)
    /\ IntHeader(dIn.headers, positionStart)
    => dOut.kind = "edb"

\* C19: a borrow that fails with a conflict error changes nothing of the
\* guard's state, and its error is the one of the reason the connection is
\* borrowed for, the error assertUnborrowed() returns in that state,
\* whatever the reason requested.
C19_FailedBorrowKeepsState ==
    [][bOp'.op = "borrow" /\ bRet' \in ConflictErrs =>
          /\ reason' = reason
          /\ holders' = holders
          /\ scriptCalls' = scriptCalls /\ granularCalls' = granularCalls
          /\ bRet' = assertUnborrowed(reason).out
          /\ bRet' = (IF reason = "transaction" THEN errBorrowedTx
                      ELSE errBorrowedSubtx)]_vars

\* a "transaction" borrow refused on a connection borrowed for a
\* subtransaction
C19_Witness ==
    /\ bOp = [op |-> "borrow", arg |-> "transaction", pre |-> "subtransaction"]
    /\ bRet = errBorrowedSubtx
    /\ reason = "subtransaction"

====
